---- MODULE Spec2Model ----
(***************************************************************************)
(* The authenticated key exchange (AKE) of otr3, ake.go: two AKE contexts  *)
(* ("bob" = x, the initiator; "alice" = y, the responder), the four send   *)
(* steps, the four process steps, and a network that delivers the honest   *)
(* messages, single-byte modifications of them, and messages crafted by a  *)
(* peer that knows the session keys.                                       *)
(*                                                                         *)
(* Byte strings are sequences of naturals.  One element stands for one     *)
(* fixed-size chunk of the wire format (a 4-byte length word, a byte of an *)
(* MPI, the first 20 / last 12 bytes of a SHA-256 digest, ...).            *)
(***************************************************************************)
EXTENDS Integers, Sequences, FiniteSets, TLC

\* ------------------------------------------------------------------ bounds
\* secret exponents drawn by randMPI are 1..MaxExp
MaxExp == 2
\* values of the random key r are 1..MaxR
MaxR == 1
\* operations of a run that drives one context with arbitrary calls; a call
\* that returns an error counts as two
MaxOps == 4
\* the clock of a conversation advances MaxTicks times, half a heartbeat
\* interval each time
MaxTicks == 3

\* ------------------------------------------------- protocol constants
\* the DH modulus p (a small prime; 2 has order 11 modulo 23)
P == 23
\* the generator g1
g1 == 2
pMinusTwo == P - 2
\* length of the message header (version word and message type)
headerLen == 3

msgTypeDHCommit == 2
msgTypeDHKey == 10
msgTypeRevealSig == 17
msgTypeSig == 18

\* nil *big.Int, nil *PublicKey
Nil == -1
\* &PublicKey{} before (or after a failed) parse
EmptyKey == 0

Party == {"bob", "alice"}
Other(p) == IF p = "bob" THEN "alice" ELSE "bob"
\* the long-term key pair of each party; key 3 belongs to nobody honest
OurKey(p) == IF p = "bob" THEN 1 ELSE 2
NumKeys == 3
\* ourKeyID as set by the constructor of the context
InitKeyID(p) == IF p = "bob" THEN 1 ELSE 2

\* ------------------------------------------------------------- errors
\* an error is the sequence of the parts of its text; nil is <<>>
NoErr == <<>>
errInvalidOTRMessage == <<"otr: invalid OTR message">>
errShortRandomRead == <<"otr: short read from random source">>
errCorruptEncryptedSignature == <<"otr: corrupt encrypted signature">>
errCorruptMessage == <<"otr: corrupt message">>
errDHOutOfRange == <<"otr: DH value out of range">>
errGxCorrupt == <<"otr: gx corrupt after decryption">>
errBadCommitMAC == <<"otr: bad commit MAC in reveal signature message">>
errBadSigMAC == <<"bad signature MAC in encrypted signature">>
errBadSig == <<"bad signature in encrypted signature">>

\* ------------------------------------------------- byte-string helpers
\* bitwise exclusive or: of two bits, of two 4-bit values (a table), of naturals
RECURSIVE XorBits(_, _)
XorBits(a, b) ==
    IF a = 0 THEN b
    ELSE IF b = 0 THEN a
    ELSE 2 * XorBits(a \div 2, b \div 2) + ((a + b) % 2)

Xor4 == [a \in 0..15 |-> [b \in 0..15 |-> XorBits(a, b)]]

RECURSIVE XOR(_, _)
XOR(a, b) ==
    IF a = 0 THEN b
    ELSE IF b = 0 THEN a
    ELSE 16 * XOR(a \div 16, b \div 16) + Xor4[a % 16][b % 16]

Drop(s, n) == SubSeq(s, n + 1, Len(s))
Take(s, n) == SubSeq(s, 1, n)

\* big.Int.Bytes(): big-endian, no leading zero, empty for 0
RECURSIVE Bytes(_)
Bytes(v) == IF v = 0 THEN <<>> ELSE Bytes(v \div 256) \o <<v % 256>>

\* big.Int.SetBytes()
RECURSIVE SetBytes(_)
SetBytes(s) ==
    IF s = <<>> THEN 0
    ELSE SetBytes(Take(s, Len(s) - 1)) * 256 + s[Len(s)]

appendWord(l, w) == l \o <<w>>
appendData(l, d) == l \o <<Len(d)>> \o d
appendMPI(l, v) == appendData(l, Bytes(v))

\* extractWord, extractData, extractMPI return [ok, val, rest]
extractWord(d) ==
    IF Len(d) < 1 THEN [ok |-> FALSE, val |-> 0, rest |-> <<>>]
    ELSE [ok |-> TRUE, val |-> d[1], rest |-> Drop(d, 1)]

extractData(d) ==
    IF Len(d) < 1 \/ Len(d) - 1 < d[1]
    THEN [ok |-> FALSE, val |-> <<>>, rest |-> <<>>]
    ELSE [ok |-> TRUE, val |-> SubSeq(d, 2, d[1] + 1), rest |-> Drop(d, d[1] + 1)]

extractMPI(d) ==
    LET e == extractData(d)
    IN  [ok |-> e.ok, val |-> IF e.ok THEN SetBytes(e.val) ELSE 0, rest |-> e.rest]

\* --------------------------------------------------------- primitives
RECURSIVE modExpP(_, _)
modExpP(b, e) == IF e = 0 THEN 1 ELSE (b * modExpP(b, e - 1)) % P
modExp(b, e) == modExpP(b % P, e)

lt(a, b) == a < b
gt(a, b) == a > b
eq(a, b) == a = b

\* the compression at the core of the digest: a polynomial hash of data[i..]
RECURSIVE Poly(_, _, _)
Poly(h, data, i) ==
    IF i > Len(data) THEN h
    ELSE Poly((h * 31 + data[i] + 1) % 65521, data, i + 1)

\* a SHA-256 digest: <<first 20 bytes, last 12 bytes>>
sha256Sum(x) ==
    LET h == Poly(7, x, 1)
    IN  <<h, (h * 37 + Len(x) + 11) % 65521>>

\* HMAC-SHA256: H((key xor opad) || H((key xor ipad) || data))
sumHMAC(key, data) ==
    LET ipad == [i \in 1..Len(key) |-> XOR(key[i], 54)]
        opad == [i \in 1..Len(key) |-> XOR(key[i], 92)]
    IN  sha256Sum(opad \o sha256Sum(ipad \o data))

\* AES in counter mode with a zero IV: the keystream is xored on the data
KeyStream(key, i) == Poly(3 + i, key, 1) % 256
ctrXOR(key, data) == [i \in 1..Len(data) |-> XOR(data[i], KeyStream(key, i))]
encrypt(key, data) == ctrXOR(key, data)
decrypt(key, data) == ctrXOR(key, data)

\* ------------------------------------------------- long-term keys (DSA)
\* PublicKey.serialize: one element naming the key
serializeKey(k) == <<k>>
\* PublicKey.parse: [ok, key, rest]
parseKey(d) ==
    IF Len(d) < 1 \/ d[1] \notin 1..NumKeys
    THEN [ok |-> FALSE, key |-> EmptyKey, rest |-> <<>>]
    ELSE [ok |-> TRUE, key |-> d[1], rest |-> Drop(d, 1)]
\* PrivateKey.sign: a two-element signature over the digest mb
sign(k, mb) ==
    << (mb[1] * 3 + k * 5 + 1) % 65521, (mb[2] * 7 + k * 11 + 2) % 65521 >>
\* PublicKey.verify: [ok, rest]
verify(k, mb, s) ==
    IF Len(s) < 2 \/ k \notin 1..NumKeys THEN [ok |-> FALSE, rest |-> <<>>]
    ELSE [ok |-> Take(s, 2) = sign(k, mb), rest |-> Drop(s, 2)]

\* ------------------------------------------------------ key derivation
h2(b, s) == sha256Sum(<<b>> \o appendMPI(<<>>, s))
ZeroKeys == [c |-> <<0>>, m1 |-> <<0, 0>>, m2 |-> <<0, 0>>]
\* calculateAKEKeys: [ssid, revealKey, sigKey]
calculateAKEKeys(s) ==
    [ssid |-> Take(h2(0, s), 1),
     revealKey |-> [c |-> <<h2(1, s)[1]>>, m1 |-> h2(2, s), m2 |-> h2(3, s)],
     sigKey |-> [c |-> <<h2(1, s)[2]>>, m1 |-> h2(4, s), m2 |-> h2(5, s)]]

\* ------------------------------------------------------- AKE context
\* type AKE struct { akeContext; revealKey; ssid } as created for party p
NewAKE(p) ==
    [ourKey |-> OurKey(p), ourKeyID |-> InitKeyID(p),
     secretExponent |-> Nil, ourPublicValue |-> Nil, theirPublicValue |-> Nil,
     r |-> <<0>>, encryptedGx |-> <<>>, hashedGx |-> <<0, 0>>,
     theirKey |-> Nil, theirKeyID |-> 0,
     ssid |-> <<0>>, revealKey |-> ZeroKeys, sigKey |-> ZeroKeys]

calcAKEKeys(c, s) ==
    LET k == calculateAKEKeys(s)
    IN  [c EXCEPT !.ssid = k.ssid, !.revealKey = k.revealKey, !.sigKey = k.sigKey]

\* setSecretExponent leaving ourPublicValue as it is
setSecretExponentOnly(c, val) == [c EXCEPT !.secretExponent = val]

setSecretExponent(c, val) ==
    [c EXCEPT !.secretExponent = val, !.ourPublicValue = modExp(g1, val)]

\* calcDHSharedSecret raising the party's own public value
calcDHSharedSecretOwn(c) == modExp(c.ourPublicValue, c.secretExponent)
calcDHSharedSecret(c) == modExp(c.theirPublicValue, c.secretExponent)

appendAll(one, two, publicKey, keyID) ==
    appendWord(appendMPI(appendMPI(<<>>, one), two) \o serializeKey(publicKey), keyID)

\* short: the random source reads short while signing
calcXb(c, key, mb, short) ==
    IF short THEN [err |-> errShortRandomRead, xb |-> <<>>]
    ELSE [err |-> NoErr,
          xb |-> ctrXOR(key.c, appendWord(serializeKey(c.ourKey), c.ourKeyID)
                                 \o sign(c.ourKey, mb))]

generateEncryptedSignature(c, key, short) ==
    LET verifyData == appendAll(c.ourPublicValue, c.theirPublicValue, c.ourKey, c.ourKeyID)
        mb == sumHMAC(key.m1, verifyData)
        x == calcXb(c, key, mb, short)
    IN  IF x.err # NoErr THEN [err |-> x.err, val |-> <<>>]
        ELSE [err |-> NoErr, val |-> appendData(<<>>, x.xb)]

\* ------------------------------------------------------ wire messages
messageHeader(t) == <<0, 2, t>>

\* dhCommit.serialize: the hash of gx is computed here
serializeDHCommitMsg(gx, encryptedGx) ==
    messageHeader(msgTypeDHCommit)
        \o appendData(appendData(<<>>, encryptedGx), sha256Sum(appendMPI(<<>>, gx)))

deserializeDHCommit(body) ==
    LET e == extractData(body)
        h == extractData(e.rest)
    IN  IF ~e.ok \/ ~h.ok \/ Len(h.val) # 2 \/ h.rest # <<>>
        THEN [err |-> errCorruptMessage]
        ELSE [err |-> NoErr, encryptedGx |-> e.val, hashedGx |-> h.val]

serializeDHKeyMsg(gy) == messageHeader(msgTypeDHKey) \o appendMPI(<<>>, gy)

deserializeDHKey(body) ==
    LET m == extractMPI(body)
    IN  IF ~m.ok \/ m.rest # <<>> THEN [err |-> errCorruptMessage]
        ELSE IF lt(m.val, g1) \/ gt(m.val, pMinusTwo) THEN [err |-> errDHOutOfRange]
        ELSE [err |-> NoErr, gy |-> m.val]

\* revealSig.serialize: encryptedSig carries its length already; the MAC is
\* cut to its first 20 bytes
serializeRevealSig(r, encryptedSig, macSig) ==
    messageHeader(msgTypeRevealSig) \o appendData(<<>>, r) \o encryptedSig \o Take(macSig, 1)

deserializeRevealSig(body) ==
    LET r == extractData(body)
        e == extractData(r.rest)
    IN  IF ~r.ok \/ ~e.ok \/ Len(r.val) # 1 \/ Len(e.rest) # 1
        THEN [err |-> errCorruptMessage]
        ELSE [err |-> NoErr, r |-> r.val, encryptedSig |-> e.val, macSig |-> e.rest]

serializeSig(encryptedSig, macSig) ==
    messageHeader(msgTypeSig) \o encryptedSig \o Take(macSig, 1)

deserializeSig(body) ==
    LET e == extractData(body)
    IN  IF ~e.ok \/ Len(e.rest) # 1 THEN [err |-> errCorruptMessage]
        ELSE [err |-> NoErr, encryptedSig |-> e.val, macSig |-> e.rest]

\* ---------------------------------------------------------- send steps
\* Each step returns [ctx, msg, err].  x, y: the exponent read from the
\* random source, Nil when the read is short; rnd: the value read for r,
\* Nil when the read is short (no byte delivered).
dhCommitMessage(c, x, rnd) ==
    LET c0 == [c EXCEPT !.ourKeyID = 0]
        c1 == setSecretExponent(c0, x)
        c2 == [c1 EXCEPT !.r = <<rnd>>]
        c3 == [c2 EXCEPT !.encryptedGx = encrypt(c2.r, appendMPI(<<>>, c2.ourPublicValue))]
    IN  IF x = Nil THEN [ctx |-> c0, msg |-> <<>>, err |-> errShortRandomRead]
        ELSE IF rnd = Nil THEN [ctx |-> c1, msg |-> <<>>, err |-> errShortRandomRead]
        ELSE [ctx |-> c3, msg |-> serializeDHCommitMsg(c3.ourPublicValue, c3.encryptedGx),
              err |-> NoErr]

serializeDHKey(c) == serializeDHKeyMsg(c.ourPublicValue)

dhKeyMessage(c, y) ==
    IF y = Nil THEN [ctx |-> c, msg |-> <<>>, err |-> errShortRandomRead]
    ELSE LET c1 == setSecretExponent(c, y)
         IN  [ctx |-> c1, msg |-> serializeDHKey(c1), err |-> NoErr]

\* revealSigMessage and sigMessage dereference both public values and the
\* exponent: CanSign is what keeps them from a nil dereference
CanSign(c) == c.theirPublicValue # Nil /\ c.secretExponent # Nil

revealSigMessage(c, short) ==
    LET c1 == calcAKEKeys(c, calcDHSharedSecret(c))
        e == generateEncryptedSignature(c1, c1.revealKey, short)
        macSig == sumHMAC(c1.revealKey.m2, e.val)
    IN  IF e.err # NoErr THEN [ctx |-> c1, msg |-> <<>>, err |-> e.err]
        ELSE [ctx |-> c1, msg |-> serializeRevealSig(c1.r, e.val, macSig), err |-> NoErr]

sigMessage(c, short) ==
    LET c1 == calcAKEKeys(c, calcDHSharedSecret(c))
        e == generateEncryptedSignature(c1, c1.sigKey, short)
        macSig == sumHMAC(c1.sigKey.m2, e.val)
    IN  IF e.err # NoErr THEN [ctx |-> c1, msg |-> <<>>, err |-> e.err]
        ELSE [ctx |-> c1, msg |-> serializeSig(e.val, macSig), err |-> NoErr]

\* ------------------------------------------------------- process steps
\* ensureValidMessage without the length check
ensureValidMessageNoLen(msg) == [err |-> NoErr, res |-> Drop(msg, headerLen)]

ensureValidMessage(msg) ==
    IF Len(msg) < headerLen THEN [err |-> errInvalidOTRMessage, res |-> <<>>]
    ELSE [err |-> NoErr, res |-> Drop(msg, headerLen)]

\* r1: what f1(msg) returned; r2: what f2 returns for the bytes f1 returned,
\* looked at only when f1 returned no error
chainErrors(r1, r2) == IF r1.err # NoErr THEN [err |-> r1.err] ELSE r2

\* returns [ctx, err]
processDHCommit(c, msg) ==
    LET m == chainErrors(ensureValidMessage(msg), deserializeDHCommit(ensureValidMessage(msg).res))
    IN  IF m.err # NoErr THEN [ctx |-> c, err |-> m.err]
        ELSE [ctx |-> [c EXCEPT !.encryptedGx = m.encryptedGx, !.hashedGx = m.hashedGx],
              err |-> NoErr]

\* processDHKey storing every gy it receives
processDHKeyOverwrite(c, msg) ==
    LET m == chainErrors(ensureValidMessage(msg), deserializeDHKey(ensureValidMessage(msg).res))
    IN  IF m.err # NoErr THEN [ctx |-> c, isSame |-> FALSE, err |-> m.err]
        ELSE [ctx |-> [c EXCEPT !.theirPublicValue = m.gy],
              isSame |-> c.theirPublicValue # Nil /\ eq(c.theirPublicValue, m.gy),
              err |-> NoErr]

\* the gy of a Key message that deserializes, Nil otherwise
KeyMessageGy(msg) ==
    LET m == chainErrors(ensureValidMessage(msg), deserializeDHKey(ensureValidMessage(msg).res))
    IN  IF m.err = NoErr THEN m.gy ELSE Nil

\* returns [ctx, isSame, err]
processDHKey(c, msg) ==
    LET m == chainErrors(ensureValidMessage(msg), deserializeDHKey(ensureValidMessage(msg).res))
    IN  IF m.err # NoErr THEN [ctx |-> c, isSame |-> FALSE, err |-> m.err]
        ELSE IF c.theirPublicValue # Nil
        THEN [ctx |-> c, isSame |-> eq(c.theirPublicValue, m.gy), err |-> NoErr]
        ELSE [ctx |-> [c EXCEPT !.theirPublicValue = m.gy], isSame |-> FALSE, err |-> NoErr]

\* returns [ctx, err, panic]; panic: a nil public value is dereferenced
processEncryptedSig(c, encryptedSig, theirMAC, keys) ==
    LET tomac == appendData(<<>>, encryptedSig)
        myMAC == Take(sumHMAC(keys.m2, tomac), 1)
        decryptedSig == decrypt(keys.c, encryptedSig)
        pk == parseKey(decryptedSig)
        c1 == [c EXCEPT !.theirKey = pk.key]
        w == extractWord(pk.rest)
        sig == w.rest
        verifyData == appendAll(c.theirPublicValue, c.ourPublicValue, pk.key, w.val)
        mb == sumHMAC(keys.m1, verifyData)
        v == verify(pk.key, mb, sig)
    IN  IF Len(myMAC) # Len(theirMAC) \/ myMAC # theirMAC
        THEN [ctx |-> c, err |-> errBadSigMAC, panic |-> FALSE]
        ELSE IF ~pk.ok \/ ~w.ok
        THEN [ctx |-> c1, err |-> errCorruptEncryptedSignature, panic |-> FALSE]
        ELSE IF c.theirPublicValue = Nil \/ c.ourPublicValue = Nil
        THEN [ctx |-> c1, err |-> NoErr, panic |-> TRUE]
        ELSE IF ~v.ok
        THEN [ctx |-> c1, err |-> errBadSig, panic |-> FALSE]
        ELSE IF Len(v.rest) > 0
        THEN [ctx |-> c1, err |-> errCorruptEncryptedSignature, panic |-> FALSE]
        ELSE [ctx |-> [c1 EXCEPT !.theirKeyID = w.val], err |-> NoErr, panic |-> FALSE]

\* extractGx without the range check
extractGxNoRange(decryptedGx) ==
    LET m == extractMPI(decryptedGx)
    IN  IF ~m.ok \/ Len(m.rest) > 0 THEN [err |-> errGxCorrupt, gx |-> m.val]
        ELSE [err |-> NoErr, gx |-> m.val]

\* returns [err, gx]
extractGx(decryptedGx) ==
    LET m == extractMPI(decryptedGx)
    IN  IF ~m.ok \/ Len(m.rest) > 0 THEN [err |-> errGxCorrupt, gx |-> m.val]
        ELSE IF lt(m.val, g1) \/ gt(m.val, pMinusTwo)
        THEN [err |-> errDHOutOfRange, gx |-> m.val]
        ELSE [err |-> NoErr, gx |-> m.val]

\* checkDecryptedGx accepting every digest
checkDecryptedGxAny(decryptedGx, hashedGx) == NoErr

checkDecryptedGx(decryptedGx, hashedGx) ==
    IF sha256Sum(decryptedGx) # hashedGx THEN errBadCommitMAC ELSE NoErr

\* processRevealSig storing gx and deriving the keys before the commitment
\* is checked
processRevealSigEarly(c, msg) ==
    LET m == chainErrors(ensureValidMessage(msg), deserializeRevealSig(ensureValidMessage(msg).res))
        decryptedGx == decrypt(m.r, c.encryptedGx)
        commitErr == checkDecryptedGx(decryptedGx, c.hashedGx)
        g == extractGx(decryptedGx)
        c1 == [c EXCEPT !.theirPublicValue = g.gx]
        c2 == IF c.secretExponent = Nil THEN c1 ELSE calcAKEKeys(c1, calcDHSharedSecret(c1))
        e == processEncryptedSig(c2, m.encryptedSig, m.macSig, c2.revealKey)
    IN  IF m.err # NoErr THEN [ctx |-> c, err |-> m.err, panic |-> FALSE]
        ELSE IF commitErr # NoErr THEN [ctx |-> c2, err |-> commitErr, panic |-> FALSE]
        ELSE IF g.err # NoErr THEN [ctx |-> c2, err |-> g.err, panic |-> FALSE]
        ELSE IF c.secretExponent = Nil THEN [ctx |-> c1, err |-> NoErr, panic |-> TRUE]
        ELSE IF e.err # NoErr
        THEN [ctx |-> e.ctx, err |-> <<"otr: in reveal signature message: ">> \o e.err,
              panic |-> e.panic]
        ELSE [ctx |-> e.ctx, err |-> NoErr, panic |-> e.panic]

\* returns [ctx, err, panic]
processRevealSig(c, msg) ==
    LET m == chainErrors(ensureValidMessage(msg), deserializeRevealSig(ensureValidMessage(msg).res))
        decryptedGx == decrypt(m.r, c.encryptedGx)
        commitErr == checkDecryptedGx(decryptedGx, c.hashedGx)
        g == extractGx(decryptedGx)
        c1 == [c EXCEPT !.theirPublicValue = g.gx]
        c2 == calcAKEKeys(c1, calcDHSharedSecret(c1))
        e == processEncryptedSig(c2, m.encryptedSig, m.macSig, c2.revealKey)
    IN  IF m.err # NoErr THEN [ctx |-> c, err |-> m.err, panic |-> FALSE]
        ELSE IF commitErr # NoErr THEN [ctx |-> c, err |-> commitErr, panic |-> FALSE]
        ELSE IF g.err # NoErr THEN [ctx |-> c, err |-> g.err, panic |-> FALSE]
        ELSE IF c.secretExponent = Nil THEN [ctx |-> c1, err |-> NoErr, panic |-> TRUE]
        ELSE IF e.err # NoErr
        THEN [ctx |-> e.ctx, err |-> <<"otr: in reveal signature message: ">> \o e.err,
              panic |-> e.panic]
        ELSE [ctx |-> e.ctx, err |-> NoErr, panic |-> e.panic]

\* processSig checking the message under revealKey
processSigRevealKey(c, msg) ==
    LET m == chainErrors(ensureValidMessage(msg), deserializeSig(ensureValidMessage(msg).res))
        e == processEncryptedSig(c, m.encryptedSig, m.macSig, c.revealKey)
    IN  IF m.err # NoErr THEN [ctx |-> c, err |-> m.err, panic |-> FALSE]
        ELSE IF e.err # NoErr
        THEN [ctx |-> e.ctx, err |-> <<"otr: in signature message: ">> \o e.err,
              panic |-> e.panic]
        ELSE [ctx |-> e.ctx, err |-> NoErr, panic |-> e.panic]

\* returns [ctx, err, panic]
processSig(c, msg) ==
    LET m == chainErrors(ensureValidMessage(msg), deserializeSig(ensureValidMessage(msg).res))
        e == processEncryptedSig(c, m.encryptedSig, m.macSig, c.sigKey)
    IN  IF m.err # NoErr THEN [ctx |-> c, err |-> m.err, panic |-> FALSE]
        ELSE IF e.err # NoErr
        THEN [ctx |-> e.ctx, err |-> <<"otr: in signature message: ">> \o e.err,
              panic |-> e.panic]
        ELSE [ctx |-> e.ctx, err |-> NoErr, panic |-> e.panic]

\* ------------------------------------------------------- conversation
\* How long after sending a packet should we wait to send a heartbeat?
heartbeatInterval == 60
msgTypeData == 3
\* time.Time{}: the zero value of lastSent
ZeroTime == 0
\* the time the conversation is created, long after the zero time
StartTime == 2 * heartbeatInterval + 1
TickLen == heartbeatInterval \div 2

\* a nil []byte, as opposed to an empty one
NilBytes == <<-1>>

Policy == {"allowV2", "requireEncryption", "sendWhitespaceTag"}
isOTREnabled(policies) == "allowV2" \in policies
has(policies, c) == c \in policies

MsgState == {"plainText", "encrypted", "finished"}

\* keyManagementContext{}: the zero value, and one in use
FreshKeys == [ourKeyID |-> 0, theirKeyID |-> 0, ourCounter |-> 0, oldMACKeys |-> <<>>]
UsedKeys == [ourKeyID |-> 2, theirKeyID |-> 1, ourCounter |-> 3, oldMACKeys |-> <<7, 9>>]

NewConversation ==
    [policies |-> {"allowV2"}, msgState |-> "plainText", authState |-> "authStateNone",
     keys |-> FreshKeys, lastSent |-> ZeroTime]

errCannotSendFinished ==
    <<"otr: cannot send message because secure conversation has finished">>
errCannotSendState == <<"otr: cannot send message in current state">>
errEncryption == <<"otr: cannot create the data message">>
errInvalidVersion == <<"otr: cannot wrap the message: invalid version">>
errHeartbeatPending == <<"error of the operation that precedes the heartbeat">>

\* what Send does: the conversation after the call, the messages and the
\* error returned, the events raised
Result(c, msgs, err, events) == [conv |-> c, msgs |-> msgs, err |-> err, events |-> events]

\* beat: the call returned a heartbeat message; lastBeat: the time of the last
\* call that did (Nil: none yet); beats: whether none, one or more did
NoOut ==
    [op |-> "new", err |-> NoErr, events |-> {}, beat |-> FALSE, lastBeat |-> Nil,
     beats |-> "none"]

updateLastSent(c, now) == [c EXCEPT !.lastSent = now]

queryMessage(c) == <<63, 79, 84, 82, 118, 50, 63>>
appendWhitespaceTag(c, message) == message \o <<32, 9, 32, 32>>

\* wrapMessageHeader(msgType, msg): ok tells whether the version of the
\* conversation lets the header be built
wrapMessageHeader(t, msg, ok) ==
    IF ok THEN [msg |-> messageHeader(t) \o msg, err |-> NoErr]
    ELSE [msg |-> <<>>, err |-> errInvalidVersion]

\* createSerializedDataMessage: ok tells whether the data message can be
\* built; upd whether it calls updateLastSent
createSerializedDataMessage(c, message, now, ok, upd) ==
    IF ok THEN [conv |-> IF upd THEN updateLastSent(c, now) ELSE c,
                msgs |-> <<messageHeader(msgTypeData) \o ctrXOR(<<c.keys.ourCounter>>, message)>>,
                err |-> NoErr]
    ELSE [conv |-> c, msgs |-> <<>>, err |-> errEncryption]

\* genDataMsgWithFlag(nil, messageFlagIgnoreUnreadable), serialized
genDataMsgWithFlag(c, ok) ==
    IF ok THEN [msg |-> <<4, 0>>, err |-> NoErr] ELSE [msg |-> <<>>, err |-> errEncryption]

\* Send with the branch of the requireEncryption policy left out
SendNoRequire(c, m, now, ok, upd) ==
    LET message == m
    IN  IF ~isOTREnabled(c.policies) THEN Result(c, <<message>>, NoErr, {})
        ELSE IF c.msgState = "plainText"
        THEN Result(c, <<IF has(c.policies, "sendWhitespaceTag")
                         THEN appendWhitespaceTag(c, message) ELSE message>>, NoErr, {})
        ELSE IF c.msgState = "encrypted"
        THEN LET r == createSerializedDataMessage(c, message, now, ok, upd)
             IN  Result(r.conv, r.msgs, r.err,
                        IF r.err # NoErr THEN {"messageEventEncryptionError"} ELSE {})
        ELSE IF c.msgState = "finished"
        THEN Result(c, <<>>, errCannotSendFinished, {"messageEventConnectionEnded"})
        ELSE Result(c, <<>>, errCannotSendState, {})

\* Send with the finished state handled like the plaintext state
SendFinishedAsPlain(c, m, now, ok, upd) ==
    LET message == m
    IN  IF ~isOTREnabled(c.policies) THEN Result(c, <<message>>, NoErr, {})
        ELSE IF c.msgState \in {"plainText", "finished"}
        THEN IF has(c.policies, "requireEncryption")
             THEN Result(updateLastSent(c, now), <<queryMessage(c)>>, NoErr,
                         {"messageEventEncryptionRequired"})
             ELSE Result(c, <<IF has(c.policies, "sendWhitespaceTag")
                              THEN appendWhitespaceTag(c, message) ELSE message>>, NoErr, {})
        ELSE IF c.msgState = "encrypted"
        THEN LET r == createSerializedDataMessage(c, message, now, ok, upd)
             IN  Result(r.conv, r.msgs, r.err,
                        IF r.err # NoErr THEN {"messageEventEncryptionError"} ELSE {})
        ELSE Result(c, <<>>, errCannotSendState, {})

\* Conversation.Send: m is the message of the user, now is time.Now()
Send(c, m, now, ok, upd) ==
    LET message == m
    IN  IF ~isOTREnabled(c.policies) THEN Result(c, <<message>>, NoErr, {})
        ELSE IF c.msgState = "plainText"
        THEN IF has(c.policies, "requireEncryption")
             THEN Result(updateLastSent(c, now), <<queryMessage(c)>>, NoErr,
                         {"messageEventEncryptionRequired"})
             ELSE Result(c, <<IF has(c.policies, "sendWhitespaceTag")
                              THEN appendWhitespaceTag(c, message) ELSE message>>, NoErr, {})
        ELSE IF c.msgState = "encrypted"
        THEN LET r == createSerializedDataMessage(c, message, now, ok, upd)
             IN  Result(r.conv, r.msgs, r.err,
                        IF r.err # NoErr THEN {"messageEventEncryptionError"} ELSE {})
        ELSE IF c.msgState = "finished"
        THEN Result(c, <<>>, errCannotSendFinished, {"messageEventConnectionEnded"})
        ELSE Result(c, <<>>, errCannotSendState, {})

\* potentialHeartbeat sending as soon as the interval has passed
potentialHeartbeatNotStrict(c, plain, now, genOk, wrapOk) ==
    LET dataMsg == genDataMsgWithFlag(c, genOk)
        w == wrapMessageHeader(msgTypeData, dataMsg.msg, wrapOk)
    IN  IF plain # NilBytes /\ c.lastSent <= now - heartbeatInterval
        THEN IF dataMsg.err # NoErr
             THEN [conv |-> c, toSend |-> <<>>, err |-> dataMsg.err, events |-> {}]
             ELSE IF w.err # NoErr
             THEN [conv |-> c, toSend |-> <<>>, err |-> w.err, events |-> {}]
             ELSE [conv |-> updateLastSent(c, now), toSend |-> w.msg, err |-> NoErr,
                   events |-> {"messageEventHeartbeatSent"}]
        ELSE [conv |-> c, toSend |-> <<>>, err |-> NoErr, events |-> {}]

\* potentialHeartbeat: now is time.Now(); genOk, wrapOk tell whether
\* genDataMsgWithFlag and wrapMessageHeader succeed.  Returns the conversation,
\* toSend (<<>>: nil), the error and the events raised
potentialHeartbeat(c, plain, now, genOk, wrapOk) ==
    LET dataMsg == genDataMsgWithFlag(c, genOk)
        w == wrapMessageHeader(msgTypeData, dataMsg.msg, wrapOk)
    IN  IF plain # NilBytes /\ c.lastSent < now - heartbeatInterval
        THEN IF dataMsg.err # NoErr
             THEN [conv |-> c, toSend |-> <<>>, err |-> dataMsg.err, events |-> {}]
             ELSE IF w.err # NoErr
             THEN [conv |-> c, toSend |-> <<>>, err |-> w.err, events |-> {}]
             ELSE [conv |-> updateLastSent(c, now), toSend |-> w.msg, err |-> NoErr,
                   events |-> {"messageEventHeartbeatSent"}]
        ELSE [conv |-> c, toSend |-> <<>>, err |-> NoErr, events |-> {}]

\* maybeHeartbeat trying the heartbeat before it looks at err
maybeHeartbeatFirst(c, plain, toSend, err, now, genOk, wrapOk) ==
    LET h == potentialHeartbeat(c, plain, now, genOk, wrapOk)
    IN  IF err # NoErr
        THEN [conv |-> h.conv, plain |-> NilBytes, toSend |-> <<>>, tsExtra |-> <<>>,
              err |-> err, events |-> h.events]
        ELSE [conv |-> h.conv, plain |-> plain, toSend |-> toSend, tsExtra |-> h.toSend,
              err |-> h.err, events |-> h.events]

\* maybeHeartbeat: returns plain, toSend, tsExtra and the error
maybeHeartbeat(c, plain, toSend, err, now, genOk, wrapOk) ==
    LET h == potentialHeartbeat(c, plain, now, genOk, wrapOk)
    IN  IF err # NoErr
        THEN [conv |-> c, plain |-> NilBytes, toSend |-> <<>>, tsExtra |-> <<>>,
              err |-> err, events |-> {}]
        ELSE [conv |-> h.conv, plain |-> plain, toSend |-> toSend, tsExtra |-> h.toSend,
              err |-> h.err, events |-> h.events]

\* sendDHCommit moving the auth state and resetting the keys before it looks
\* at the errors
sendDHCommitEager(c, a, x, rnd, wrapOk) ==
    LET d == dhCommitMessage(a, x, rnd)
        w == wrapMessageHeader(msgTypeDHCommit, d.msg, wrapOk)
        c1 == [c EXCEPT !.authState = "authStateAwaitingDHKey",
                        !.keys = [FreshKeys EXCEPT !.oldMACKeys = c.keys.oldMACKeys]]
    IN  IF d.err # NoErr THEN [conv |-> c1, ake |-> d.ctx, toSend |-> d.msg, err |-> d.err]
        ELSE IF w.err # NoErr
        THEN [conv |-> c1, ake |-> d.ctx, toSend |-> <<>>, err |-> w.err]
        ELSE [conv |-> c1, ake |-> d.ctx, toSend |-> w.msg, err |-> NoErr]

\* sendDHCommit on the conversation c with the AKE context a: x, rnd are what
\* the random source yields (Nil: a short read), wrapOk whether
\* wrapMessageHeader succeeds.  Returns the conversation, the context, toSend
\* (<<>>: nil) and the error
sendDHCommit(c, a, x, rnd, wrapOk) ==
    LET d == dhCommitMessage(a, x, rnd)
        w == wrapMessageHeader(msgTypeDHCommit, d.msg, wrapOk)
    IN  IF d.err # NoErr THEN [conv |-> c, ake |-> d.ctx, toSend |-> d.msg, err |-> d.err]
        ELSE IF w.err # NoErr
        THEN [conv |-> c, ake |-> d.ctx, toSend |-> <<>>, err |-> w.err]
        ELSE [conv |-> [c EXCEPT !.authState = "authStateAwaitingDHKey",
                                 !.keys = [FreshKeys EXCEPT
                                               !.oldMACKeys = c.keys.oldMACKeys]],
              ake |-> d.ctx, toSend |-> w.msg, err |-> NoErr]

\* ------------------------------------------------------------ network
VARIABLES
    ake,     \* ake[p]: the AKE context of party p
    wire,    \* the last message of each kind a send step emitted (<<>>: none)
    ret,     \* the last operation: its name, its party and what it returned
    script,  \* the position of the run in the scripted four-message exchange
    dev,     \* the number of operations taken so far by a run off the script
    active,  \* the parties whose contexts the run operates on
    conv,    \* the Conversation: policies, msgState, auth state, keys, lastSent
    clock,   \* what time.Now() returns
    out      \* the last operation on the Conversation: its error and its events

vars == <<ake, wire, ret, script, dev, active, conv, clock, out>>

Exponents == 1..MaxExp
RValues == 1..MaxR

\* the values a dishonest peer puts forward as its DH public value
AdvDH == {1, 4, P - 2, P - 1}
\* the key r of a dishonest peer
AdvR == <<MaxR + 1>>

Flips(s) == {[s EXCEPT ![i] = XOR(s[i], 1)] : i \in 1..Len(s)}

\* a Commit message carrying the plaintext pt encrypted under r
CommitFor(r, pt) ==
    messageHeader(msgTypeDHCommit)
        \o appendData(appendData(<<>>, encrypt(r, pt)), sha256Sum(pt))

\* single-byte modifications of one field of an honest message
TamperedCommit(msg) ==
    LET m == deserializeDHCommit(Drop(msg, headerLen))
        build(e, h) == messageHeader(msgTypeDHCommit) \o appendData(appendData(<<>>, e), h)
    IN  {[msg |-> build(e, m.hashedGx), mod |-> "encryptedGx"] : e \in Flips(m.encryptedGx)}
        \cup {[msg |-> build(m.encryptedGx, h), mod |-> "hashedGx"] : h \in Flips(m.hashedGx)}

TamperedRevealSig(msg) ==
    LET m == deserializeRevealSig(Drop(msg, headerLen))
        build(e, mac) == serializeRevealSig(m.r, appendData(<<>>, e), mac)
    IN  {[msg |-> build(e, m.macSig), mod |-> "reveal.encryptedSig"] : e \in Flips(m.encryptedSig)}
        \cup {[msg |-> build(m.encryptedSig, mac), mod |-> "reveal.macSig"] : mac \in Flips(m.macSig)}

TamperedSig(msg) ==
    LET m == deserializeSig(Drop(msg, headerLen))
        build(e, mac) == serializeSig(appendData(<<>>, e), mac)
    IN  {[msg |-> build(e, m.macSig), mod |-> "sig.encryptedSig"] : e \in Flips(m.encryptedSig)}
        \cup {[msg |-> build(m.encryptedSig, mac), mod |-> "sig.macSig"] : mac \in Flips(m.macSig)}

\* the encryptedSig and macSig of a Reveal Signature message as a Signature
\* message, and those of a Signature message as a Reveal Signature message
\* that reveals r
RevealAsSig(msg) ==
    LET m == deserializeRevealSig(Drop(msg, headerLen))
    IN  serializeSig(appendData(<<>>, m.encryptedSig), m.macSig)

SigAsReveal(r, msg) ==
    LET m == deserializeSig(Drop(msg, headerLen))
    IN  serializeRevealSig(r, appendData(<<>>, m.encryptedSig), m.macSig)

\* a message shorter than the header, and one whose body does not
\* deserialize: it has trailing bytes, or it is missing
Malformed(honest) ==
    {Take(messageHeader(0), headerLen - 1),
     IF honest # <<>> THEN honest \o <<9>> ELSE messageHeader(0)}

\* the encrypted signatures a peer holding the bundle keys can build, as
\* [encryptedSig, macSig]: a valid one under key 3, one whose signature is over
\* other data, one with bytes after the signature, one with no parsable key
SigVariants(keys, their, our) ==
    LET mb == sumHMAC(keys.m1, appendAll(their, our, 3, 1))
        pts == {<<3, 1>> \o sign(3, mb),
                <<3, 1>> \o sign(3, <<0, 0>>),
                <<3, 1>> \o sign(3, mb) \o <<5>>,
                <<0>>}
    IN  {[encryptedSig |-> appendData(<<>>, ctrXOR(keys.c, pt)),
          macSig |-> sumHMAC(keys.m2, appendData(<<>>, ctrXOR(keys.c, pt)))] : pt \in pts}

CraftedCommit ==
    {CommitFor(AdvR, appendMPI(<<>>, v)) : v \in AdvDH \ {P - 2}}
        \cup {CommitFor(AdvR, appendMPI(<<>>, 4) \o <<5>>)}

CraftedKey == {serializeDHKeyMsg(v) : v \in AdvDH}

\* Reveal Signature messages for the commitment context c holds
CraftedRevealSig(c) ==
    LET forR(r) ==
            LET d == decrypt(r, c.encryptedGx)
                g == extractGx(d)
                keys == calculateAKEKeys(modExp(g.gx, c.secretExponent)).revealKey
            IN  {serializeRevealSig(r, appendData(<<>>, <<1, 2>>), <<7, 7>>)}
                \cup (IF checkDecryptedGx(d, c.hashedGx) = NoErr /\ g.err = NoErr
                         /\ c.secretExponent # Nil
                      THEN {serializeRevealSig(r, v.encryptedSig, v.macSig) :
                                v \in SigVariants(keys, g.gx, c.ourPublicValue)}
                      ELSE {})
    IN  forR(AdvR)

CraftedSig(c) ==
    {serializeSig(appendData(<<>>, <<1, 2>>), <<7, 7>>),
     serializeSig(appendData(<<>>, ctrXOR(c.sigKey.c, <<0>>)),
                  sumHMAC(c.sigKey.m2, appendData(<<>>, ctrXOR(c.sigKey.c, <<0>>))))}
        \cup (IF c.theirPublicValue # Nil /\ c.ourPublicValue # Nil
              THEN {serializeSig(v.encryptedSig, v.macSig) :
                        v \in SigVariants(c.sigKey, c.theirPublicValue, c.ourPublicValue)}
              ELSE {})

\* what may be delivered as a message of one kind, as [msg, mod]: the message
\* on the wire, in a scripted run also its modifications, and in a run that
\* drives one context the crafted and the malformed messages
Deliveries(honest, tampered, crafted) ==
    IF active = Party
    THEN IF honest # <<>> THEN {[msg |-> honest, mod |-> "none"]} \cup tampered ELSE {}
    ELSE {[msg |-> m, mod |-> "crafted"] :
              m \in crafted \cup Malformed(honest) \cup (IF honest # <<>> THEN {honest} ELSE {})}

\* --------------------------------------------------------- the script
\* bob: dhCommitMessage (0); alice: processDHCommit (1), dhKeyMessage (2);
\* bob: processDHKey (3), revealSigMessage (4); alice: processRevealSig (5),
\* sigMessage (6); bob: processSig (7); 8: the exchange is over.  pos = -1:
\* the run has left the script.  mod: the field modified in delivery.
\* failAt: the step whose process call returned an error (0: none).
ScriptParty(k) == IF k \in {0, 3, 4, 7} THEN "bob" ELSE "alice"

OnScript(k, p, mod) ==
    /\ script.pos = k
    /\ script.failAt = 0
    /\ p = ScriptParty(k)
    /\ mod # "crafted"
    /\ mod = "none" \/ script.mod = "none"

\* a scripted run takes the next step of the script; a run that drives one
\* context takes any step, MaxOps steps in all
MayAct(k, p) ==
    /\ p \in active
    /\ IF active = Party
       THEN script.pos = k /\ script.failAt = 0 /\ p = ScriptParty(k)
       ELSE dev < MaxOps

Track(k, p, mod, err) ==
    /\ UNCHANGED <<active, conv, clock, out>>
    /\ IF OnScript(k, p, mod)
       THEN /\ script' = [pos |-> k + 1,
                          mod |-> IF mod # "none" THEN mod ELSE script.mod,
                          failAt |-> IF err # NoErr THEN k ELSE 0]
            /\ dev' = dev
       ELSE /\ active # Party
            /\ dev < MaxOps
            /\ script' = [script EXCEPT !.pos = -1]
            /\ dev' = IF err = NoErr THEN dev + 1
                      ELSE IF dev + 2 <= MaxOps THEN dev + 2 ELSE MaxOps

\* gy: the value a Key message carried, Nil when there is none
Ret(op, p, gy, err, isSame) ==
    [op |-> op, p |-> p, gy |-> gy, err |-> err, isSame |-> isSame]

Init ==
    /\ ake = [p \in Party |-> NewAKE(p)]
    /\ wire = [commit |-> <<>>, key |-> <<>>, reveal |-> <<>>, sig |-> <<>>]
    /\ ret = Ret("new", "bob", Nil, NoErr, FALSE)
    /\ script = [pos |-> 0, mod |-> "none", failAt |-> 0]
    /\ dev = 0
    /\ active = Party
    /\ conv = NewConversation
    /\ clock = StartTime
    /\ out = NoOut

\* one context, driven by arbitrary calls with arbitrary messages
InitAdv ==
    /\ ake = [p \in Party |-> NewAKE(p)]
    /\ wire = [commit |-> <<>>, key |-> <<>>, reveal |-> <<>>, sig |-> <<>>]
    /\ ret = Ret("new", "alice", Nil, NoErr, FALSE)
    /\ script = [pos |-> -1, mod |-> "none", failAt |-> 0]
    /\ dev = 0
    /\ active = {"alice"}
    /\ conv = NewConversation
    /\ clock = StartTime
    /\ out = NoOut

\* ------------------------------------------------------------ actions
DhCommitMessage(p) ==
    /\ MayAct(0, p)
    /\ \E x \in Exponents \cup {Nil}, rnd \in RValues \cup {Nil} :
            LET res == dhCommitMessage(ake[p], x, rnd)
            IN  /\ x = Nil => rnd = Nil
                /\ ake' = [ake EXCEPT ![p] = res.ctx]
                /\ wire' = IF res.err = NoErr THEN [wire EXCEPT !.commit = res.msg] ELSE wire
                /\ ret' = Ret("dhCommitMessage", p, Nil, res.err, FALSE)
                /\ Track(0, p, IF res.err = NoErr THEN "none" ELSE "crafted", res.err)

DhKeyMessage(p) ==
    /\ MayAct(2, p)
    /\ \E y \in Exponents \cup {Nil} :
            LET res == dhKeyMessage(ake[p], y)
            IN  /\ ake' = [ake EXCEPT ![p] = res.ctx]
                /\ wire' = IF res.err = NoErr THEN [wire EXCEPT !.key = res.msg] ELSE wire
                /\ ret' = Ret("dhKeyMessage", p, Nil, res.err, FALSE)
                /\ Track(2, p, IF res.err = NoErr THEN "none" ELSE "crafted", res.err)

RevealSigMessage(p) ==
    /\ MayAct(4, p)
    /\ \E short \in BOOLEAN :
            /\ CanSign(ake[p])
            /\ LET res == revealSigMessage(ake[p], short)
               IN  /\ ake' = [ake EXCEPT ![p] = res.ctx]
                   /\ wire' = IF res.err = NoErr THEN [wire EXCEPT !.reveal = res.msg] ELSE wire
                   /\ ret' = Ret("revealSigMessage", p, Nil, res.err, FALSE)
                   /\ Track(4, p, IF res.err = NoErr THEN "none" ELSE "crafted", res.err)

SigMessage(p) ==
    /\ MayAct(6, p)
    /\ \E short \in BOOLEAN :
            /\ CanSign(ake[p])
            /\ LET res == sigMessage(ake[p], short)
               IN  /\ ake' = [ake EXCEPT ![p] = res.ctx]
                   /\ wire' = IF res.err = NoErr THEN [wire EXCEPT !.sig = res.msg] ELSE wire
                   /\ ret' = Ret("sigMessage", p, Nil, res.err, FALSE)
                   /\ Track(6, p, IF res.err = NoErr THEN "none" ELSE "crafted", res.err)

ProcessDHCommit(p) ==
    /\ MayAct(1, p)
    /\ \E d \in Deliveries(wire.commit, TamperedCommit(wire.commit), CraftedCommit) :
            LET res == processDHCommit(ake[p], d.msg)
            IN  /\ ake' = [ake EXCEPT ![p] = res.ctx]
                /\ ret' = Ret("processDHCommit", p, Nil, res.err, FALSE)
                /\ Track(1, p, d.mod, res.err)
                /\ UNCHANGED wire

ProcessDHKey(p) ==
    /\ MayAct(3, p)
    /\ \E d \in Deliveries(wire.key, {}, CraftedKey) :
            LET res == processDHKey(ake[p], d.msg)
            IN  /\ ake' = [ake EXCEPT ![p] = res.ctx]
                /\ ret' = Ret("processDHKey", p, KeyMessageGy(d.msg), res.err, res.isSame)
                /\ Track(3, p, d.mod, res.err)
                /\ UNCHANGED wire

ProcessRevealSig(p) ==
    /\ MayAct(5, p)
    /\ \E d \in Deliveries(wire.reveal, TamperedRevealSig(wire.reveal), CraftedRevealSig(ake[p])) :
            LET res == processRevealSig(ake[p], d.msg)
            IN  /\ ~res.panic
                /\ ake' = [ake EXCEPT ![p] = res.ctx]
                /\ ret' = Ret("processRevealSig", p, Nil, res.err, FALSE)
                /\ Track(5, p, d.mod, res.err)
                /\ UNCHANGED wire

ProcessSig(p) ==
    /\ MayAct(7, p)
    /\ \E d \in Deliveries(wire.sig,
                            TamperedSig(wire.sig)
                                \cup {[msg |-> RevealAsSig(wire.reveal),
                                       mod |-> "sig.fromReveal"]},
                            CraftedSig(ake[p])) :
            LET res == processSig(ake[p], d.msg)
            IN  /\ ~res.panic
                /\ ake' = [ake EXCEPT ![p] = res.ctx]
                /\ ret' = Ret("processSig", p, Nil, res.err, FALSE)
                /\ Track(7, p, d.mod, res.err)
                /\ UNCHANGED wire

Next ==
    \/ \E p \in Party : DhCommitMessage(p)
    \/ \E p \in Party : DhKeyMessage(p)
    \/ \E p \in Party : RevealSigMessage(p)
    \/ \E p \in Party : SigMessage(p)
    \/ \E p \in Party : ProcessDHCommit(p)
    \/ \E p \in Party : ProcessDHKey(p)
    \/ \E p \in Party : ProcessRevealSig(p)
    \/ \E p \in Party : ProcessSig(p)

Spec == Init /\ [][Next]_vars
SpecAdv == InitAdv /\ [][Next]_vars

\* ------------------------------------------- conversation: the actions
\* the policies of a conversation: OTR disabled, enabled alone, enabled with
\* the whitespace tag, and enabled with encryption required
PolicySets ==
    {{"requireEncryption"}, {"allowV2"}, {"allowV2", "sendWhitespaceTag"},
     {"allowV2", "requireEncryption", "sendWhitespaceTag"}}

\* a conversation in any message state, under any of the policy sets; one
\* that has left plainText has been through a key exchange and has keys in use
InitConv ==
    /\ ake = [p \in Party |-> NewAKE(p)]
    /\ wire = [commit |-> <<>>, key |-> <<>>, reveal |-> <<>>, sig |-> <<>>]
    /\ ret = Ret("new", "bob", Nil, NoErr, FALSE)
    /\ script = [pos |-> -1, mod |-> "none", failAt |-> 0]
    /\ dev = 0
    /\ active = {"bob"}
    /\ \E pol \in PolicySets, ms \in MsgState :
            conv = [NewConversation EXCEPT
                        !.policies = pol, !.msgState = ms,
                        !.authState = IF ms = "plainText" THEN "authStateNone"
                                      ELSE "authStateAwaitingSig",
                        !.keys = IF ms = "plainText" THEN FreshKeys ELSE UsedKeys]
    /\ clock = StartTime
    /\ out = NoOut

\* the messages of the user: a text, and the text of the query message
UserMessages == {<<104, 105>>, queryMessage(NewConversation)}

Tick ==
    /\ clock < StartTime + MaxTicks * TickLen
    /\ clock' = clock + TickLen
    /\ UNCHANGED <<ake, wire, ret, script, dev, active, conv, out>>

SendMessage ==
    /\ \E m \in UserMessages, ok \in BOOLEAN, upd \in BOOLEAN :
            /\ (conv.msgState # "encrypted" \/ ~ok) => upd
            /\ conv.msgState # "encrypted" => ok
            /\ LET res == Send(conv, m, clock, ok, upd)
               IN  /\ conv' = res.conv
                   /\ out' = [op |-> "Send", err |-> res.err, events |-> res.events,
                              beat |-> FALSE, lastBeat |-> out.lastBeat,
                              beats |-> out.beats]
    /\ UNCHANGED <<ake, wire, ret, script, dev, active, clock>>

MaybeHeartbeat ==
    /\ \E plain \in {NilBytes, <<>>}, toSend \in {<<0, 2, 3, 1>>},
          err \in {NoErr, errHeartbeatPending}, genOk \in BOOLEAN, wrapOk \in BOOLEAN :
            /\ (err # NoErr \/ ~genOk) => wrapOk
            /\ err # NoErr => genOk
            /\ LET res == maybeHeartbeat(conv, plain, toSend, err, clock, genOk, wrapOk)
               IN  /\ conv' = res.conv
                   /\ out' = [op |-> "maybeHeartbeat",
                              err |-> res.err, events |-> res.events,
                              beat |-> res.tsExtra # <<>>,
                              lastBeat |-> IF res.tsExtra # <<>> THEN clock
                                           ELSE out.lastBeat,
                              beats |-> IF res.tsExtra = <<>> THEN out.beats
                                        ELSE IF out.beats = "none" THEN "one"
                                        ELSE "more"]
    /\ UNCHANGED <<ake, wire, ret, script, dev, active, clock>>

\* the random source yields one exponent and one r, or reads short
SendDHCommit(p) ==
    /\ p \in active
    /\ \E x \in {MaxExp, Nil}, rnd \in {MaxR, Nil}, wrapOk \in BOOLEAN :
            LET res == sendDHCommit(conv, ake[p], x, rnd, wrapOk)
            IN  /\ x = Nil => rnd = Nil
                /\ rnd = Nil => wrapOk
                /\ ake' = [ake EXCEPT ![p] = res.ake]
                /\ conv' = res.conv
                /\ out' = [op |-> "sendDHCommit",
                           err |-> res.err, events |-> {}, beat |-> FALSE,
                           lastBeat |-> out.lastBeat, beats |-> out.beats]
    /\ UNCHANGED <<wire, ret, script, dev, active, clock>>

NextConv ==
    \/ Tick
    \/ SendMessage
    \/ MaybeHeartbeat
    \/ \E p \in Party : SendDHCommit(p)

SpecConv == InitConv /\ [][NextConv]_vars

\* --------------------------------------------------------- properties
\* the messages of each kind that can be handed to a context in this state
CommitMsgs(p) ==
    {d.msg : d \in Deliveries(wire.commit, TamperedCommit(wire.commit), CraftedCommit)}
KeyMsgs(p) == {d.msg : d \in Deliveries(wire.key, {}, CraftedKey)}
RevealMsgs(p) ==
    {d.msg : d \in Deliveries(wire.reveal, TamperedRevealSig(wire.reveal),
                              CraftedRevealSig(ake[p]))}
SigMsgs(p) ==
    {d.msg : d \in Deliveries(wire.sig, TamperedSig(wire.sig), CraftedSig(ake[p]))}
AllMsgs(p) == CommitMsgs(p) \cup KeyMsgs(p) \cup RevealMsgs(p) \cup SigMsgs(p)

ProcessOps == {"processDHCommit", "processDHKey", "processRevealSig", "processSig"}
KeysDerived(c) == c.ssid # <<0>>

\* C1: in an honest run of the four-message exchange with no message modified
\* no step returns an error, and when the exchange is over both contexts hold
\* the same ssid, revealKey and sigKey, and each side's theirKey and
\* theirKeyID are the other side's long-term public key and ourKeyID.
C1_HonestRunAgrees ==
    script.mod = "none" =>
        /\ script.failAt = 0
        /\ ret.err = NoErr
        /\ script.pos = 8 =>
              /\ KeysDerived(ake["bob"])
              /\ ake["bob"].ssid = ake["alice"].ssid
              /\ ake["bob"].revealKey = ake["alice"].revealKey
              /\ ake["bob"].sigKey = ake["alice"].sigKey
              /\ \A q \in Party :
                    /\ ake[q].theirKey = ake[Other(q)].ourKey
                    /\ ake[q].theirKeyID = ake[Other(q)].ourKeyID

C1_Witness ==
    /\ script.pos = 8
    /\ script.mod = "none"
    /\ ret.op = "processSig"
    /\ ake["bob"].theirKey = OurKey("alice")
    /\ ake["bob"].secretExponent # ake["alice"].secretExponent

\* C2: when one of encryptedGx, hashedGx (Commit) or macSig, encryptedSig
\* (Reveal Signature) is modified in delivery, processRevealSig returns an
\* error: the commitment error for the Commit fields, the MAC error for the
\* Reveal Signature fields.  When macSig or encryptedSig of the Signature
\* message is modified, processSig returns the MAC error.  No run with such a
\* modification has both process steps succeed.
C2_TamperingDetected ==
    /\ (script.mod \in {"encryptedGx", "hashedGx"} /\ script.pos >= 6) =>
          /\ script.pos = 6 /\ script.failAt = 5
          /\ ret.op = "processRevealSig" /\ ret.err = errBadCommitMAC
    /\ (script.mod \in {"reveal.encryptedSig", "reveal.macSig"} /\ script.pos >= 6) =>
          /\ script.pos = 6 /\ script.failAt = 5
          /\ ret.op = "processRevealSig"
          /\ ret.err = <<"otr: in reveal signature message: ">> \o errBadSigMAC
    /\ (script.mod \in {"sig.encryptedSig", "sig.macSig"} /\ script.pos >= 8) =>
          /\ script.failAt = 7
          /\ ret.op = "processSig"
          /\ ret.err = <<"otr: in signature message: ">> \o errBadSigMAC
    /\ (script.mod # "none" /\ script.pos = 8) => script.failAt # 0

C2_Witness ==
    /\ script.mod = "hashedGx"
    /\ script.pos = 6
    /\ ret.op = "processRevealSig"
    /\ ret.err # NoErr

C4_SecondKeyMessageCompared ==
    [][\A p \in Party :
          (/\ ret'.op = "processDHKey"
           /\ ret'.p = p
           /\ ret'.gy # Nil
           /\ ake[p].theirPublicValue # Nil)
          => /\ ake' = ake
             /\ ret'.err = NoErr
             /\ ret'.isSame = (ret'.gy = ake[p].theirPublicValue)]_vars

C4_Witness ==
    /\ ret.op = "processDHKey"
    /\ ret.err = NoErr
    /\ ret.gy # Nil
    /\ ~ret.isSame
    /\ ake[ret.p].theirPublicValue # Nil
    /\ ake[ret.p].theirPublicValue # ret.gy

\* C5: theirPublicValue is assigned at most once: no operation changes it
\* once it is set.
C5_PublicValueSetOnce ==
    [][\A p \in Party :
          ake[p].theirPublicValue # Nil
          => ake'[p].theirPublicValue = ake[p].theirPublicValue]_vars

\* C6: when the SHA-256 of the decrypted commitment differs from the stored
\* hashedGx, processRevealSig returns the commitment error and leaves the
\* context, theirPublicValue, ssid, revealKey, sigKey, theirKey and theirKeyID
\* with it, unchanged; so it assigns theirPublicValue and derives keys only
\* when the hash matches.
C6_CommitmentCheckedFirst ==
    \A p \in active : \A msg \in RevealMsgs(p) :
        LET m == chainErrors(ensureValidMessage(msg), deserializeRevealSig(ensureValidMessage(msg).res))
            pt == IF m.err = NoErr THEN decrypt(m.r, ake[p].encryptedGx) ELSE <<>>
            res == processRevealSig(ake[p], msg)
        IN  (m.err = NoErr /\ sha256Sum(pt) # ake[p].hashedGx)
            => res.err = errBadCommitMAC /\ res.ctx = ake[p]

C6_Witness ==
    /\ ret.op = "processRevealSig"
    /\ ret.err = errBadCommitMAC
    /\ ake[ret.p].encryptedGx # <<>>
    /\ ake[ret.p].secretExponent # Nil
    /\ ake[ret.p].theirPublicValue = Nil
    /\ ~KeysDerived(ake[ret.p])

\* C7: whenever processRevealSig or processSig returns an error, theirKey and
\* theirKeyID are unchanged.
C7_PeerKeyKeptOnError ==
    [][\A p \in Party :
          (ret'.op \in {"processRevealSig", "processSig"} /\ ret'.p = p /\ ret'.err # NoErr)
          => /\ ake'[p].theirKey = ake[p].theirKey
             /\ ake'[p].theirKeyID = ake[p].theirKeyID]_vars

\* the two authentication checks of processEncryptedSig, for the message m
\* under the key bundle keys
MacMatches(keys, m) ==
    Take(sumHMAC(keys.m2, appendData(<<>>, m.encryptedSig)), 1) = m.macSig
SignatureVerifies(c, keys, m) ==
    LET pk == parseKey(decrypt(keys.c, m.encryptedSig))
        w == extractWord(pk.rest)
    IN  /\ pk.ok
        /\ w.ok
        /\ verify(pk.key,
                  sumHMAC(keys.m1, appendAll(c.theirPublicValue, c.ourPublicValue,
                                             pk.key, w.val)),
                  w.rest).ok
SignatureParses(keys, m) ==
    LET pk == parseKey(decrypt(keys.c, m.encryptedSig))
    IN  pk.ok /\ extractWord(pk.rest).ok

\* C8: the error processSig returns for a Signature message whose macSig does
\* not verify is the same error value as the one it returns for a message
\* whose macSig verifies and whose signature does not.
C8_AuthFailuresAlike ==
    \A p \in active : \A msg1, msg2 \in SigMsgs(p) :
        LET m1 == chainErrors(ensureValidMessage(msg1), deserializeSig(ensureValidMessage(msg1).res))
            m2 == chainErrors(ensureValidMessage(msg2), deserializeSig(ensureValidMessage(msg2).res))
            c == ake[p]
        IN  (/\ m1.err = NoErr /\ m2.err = NoErr
             /\ c.theirPublicValue # Nil /\ c.ourPublicValue # Nil
             /\ ~MacMatches(c.sigKey, m1)
             /\ MacMatches(c.sigKey, m2)
             /\ SignatureParses(c.sigKey, m2)
             /\ ~SignatureVerifies(c, c.sigKey, m2))
            => processSig(c, msg1).err = processSig(c, msg2).err

\* C9: once keys have been derived, after processRevealSig or processSig has
\* returned, revealKey and sigKey are zero and secretExponent is unset.
C9_KeysWiped ==
    \A p \in Party :
        (ret.op \in {"processRevealSig", "processSig"} /\ ret.p = p /\ KeysDerived(ake[p]))
        => /\ ake[p].revealKey = ZeroKeys
           /\ ake[p].sigKey = ZeroKeys
           /\ ake[p].secretExponent = Nil

\* C10: each of the four process functions returns errInvalidOTRMessage for a
\* message shorter than the header, and for a message whose body does not
\* deserialize it returns the error of the deserializer; in both cases the
\* context is unchanged.  (Every function is given the messages of all four
\* kinds, processDHKey past the header those of its own kind.)
C10_MalformedRejected ==
    \A p \in active : \A msg \in AllMsgs(p) :
        LET c == ake[p]
            body == Drop(msg, headerLen)
        IN  IF Len(msg) < headerLen
            THEN /\ processDHCommit(c, msg) = [ctx |-> c, err |-> errInvalidOTRMessage]
                 /\ processDHKey(c, msg)
                        = [ctx |-> c, isSame |-> FALSE, err |-> errInvalidOTRMessage]
                 /\ processRevealSig(c, msg)
                        = [ctx |-> c, err |-> errInvalidOTRMessage, panic |-> FALSE]
                 /\ processSig(c, msg)
                        = [ctx |-> c, err |-> errInvalidOTRMessage, panic |-> FALSE]
            ELSE /\ deserializeDHCommit(body).err # NoErr
                    => processDHCommit(c, msg)
                           = [ctx |-> c, err |-> deserializeDHCommit(body).err]
                 /\ (msg \in KeyMsgs(p) /\ deserializeDHKey(body).err # NoErr)
                    => processDHKey(c, msg)
                           = [ctx |-> c, isSame |-> FALSE, err |-> deserializeDHKey(body).err]
                 /\ deserializeRevealSig(body).err # NoErr
                    => processRevealSig(c, msg)
                           = [ctx |-> c, err |-> deserializeRevealSig(body).err,
                              panic |-> FALSE]
                 /\ deserializeSig(body).err # NoErr
                    => processSig(c, msg)
                           = [ctx |-> c, err |-> deserializeSig(body).err, panic |-> FALSE]

C10_Witness ==
    /\ ret.op = "processSig"
    /\ ret.err = errInvalidOTRMessage
    /\ KeysDerived(ake[ret.p])
    /\ ake[ret.p].theirPublicValue # Nil

\* C11: when the random source reads short, for the exponent or for r,
\* dhCommitMessage and dhKeyMessage return errShortRandomRead and no message.
\* sendDHCommit moves the auth state to AwaitingDHKey and resets the keys,
\* keeping only oldMACKeys, when both dhCommitMessage and wrapMessageHeader
\* succeed; otherwise it returns an error and no message and leaves the
\* conversation, its auth state and its keys with it, unchanged.
C11_ShortReadAndSendDHCommit ==
    \A p \in active :
        LET a == ake[p]
        IN  /\ dhKeyMessage(a, Nil).err = errShortRandomRead
            /\ dhKeyMessage(a, Nil).msg = <<>>
            /\ \A x \in Exponents \cup {Nil} :
                  /\ dhCommitMessage(a, x, Nil).err = errShortRandomRead
                  /\ dhCommitMessage(a, x, Nil).msg = <<>>
            /\ \A x \in Exponents \cup {Nil}, rnd \in RValues \cup {Nil}, wrapOk \in BOOLEAN :
                  LET res == sendDHCommit(conv, a, x, rnd, wrapOk)
                      both == /\ dhCommitMessage(a, x, rnd).err = NoErr
                              /\ wrapOk
                  IN  (x = Nil => rnd = Nil)
                      => IF both
                         THEN /\ res.err = NoErr
                              /\ res.toSend # <<>>
                              /\ res.conv =
                                    [conv EXCEPT
                                        !.authState = "authStateAwaitingDHKey",
                                        !.keys = [ourKeyID |-> 0, theirKeyID |-> 0,
                                                  ourCounter |-> 0,
                                                  oldMACKeys |-> conv.keys.oldMACKeys]]
                         ELSE /\ res.err # NoErr
                              /\ res.toSend = <<>>
                              /\ res.conv = conv

C11_Witness ==
    /\ out.op = "sendDHCommit"
    /\ out.err = errShortRandomRead
    /\ ake["bob"].secretExponent # Nil
    /\ conv.keys = UsedKeys
    /\ conv.authState = "authStateAwaitingSig"

\* C12: the encryptedSig and macSig of a Reveal Signature message, delivered
\* as a Signature message to either party (to its sender too), are rejected by
\* processSig with the MAC error, and the context is unchanged; those of a
\* Signature message, delivered as a Reveal Signature message, are rejected by
\* processRevealSig, with the MAC error whenever the revealed r opens the
\* commitment the context holds.
C12_KeyBundlesSeparate ==
    /\ (script.mod = "sig.fromReveal" /\ script.pos = 8) =>
          /\ script.failAt = 7
          /\ ret.err = <<"otr: in signature message: ">> \o errBadSigMAC
    /\ \A p \in Party :
          /\ wire.reveal # <<>> =>
                processSig(ake[p], RevealAsSig(wire.reveal))
                    = [ctx |-> ake[p],
                       err |-> <<"otr: in signature message: ">> \o errBadSigMAC,
                       panic |-> FALSE]
          /\ wire.sig # <<>> =>
                \A r \in {ake["bob"].r, AdvR} :
                    LET res == processRevealSig(ake[p], SigAsReveal(r, wire.sig))
                        opens == sha256Sum(decrypt(r, ake[p].encryptedGx)) = ake[p].hashedGx
                    IN  /\ res.err # NoErr
                        /\ opens => res.err = <<"otr: in reveal signature message: ">>
                                                  \o errBadSigMAC

C12_Witness ==
    /\ script.mod = "sig.fromReveal"
    /\ script.pos = 8
    /\ ret.op = "processSig"
    /\ ret.err = <<"otr: in signature message: ">> \o errBadSigMAC
    /\ wire.sig # <<>>
    /\ sha256Sum(decrypt(ake["bob"].r, ake["alice"].encryptedGx)) = ake["alice"].hashedGx

\* C12 as stated: every such delivery, in either direction and whatever r the
\* Reveal Signature message reveals, is rejected with the MAC error.
C12_AlwaysMacError ==
    \A p \in Party :
        /\ wire.reveal # <<>> =>
              processSig(ake[p], RevealAsSig(wire.reveal)).err
                  = <<"otr: in signature message: ">> \o errBadSigMAC
        /\ wire.sig # <<>> =>
              \A r \in {ake["bob"].r, AdvR} :
                  processRevealSig(ake[p], SigAsReveal(r, wire.sig)).err
                      = <<"otr: in reveal signature message: ">> \o errBadSigMAC

\* C13: in every reachable state of a context secretExponent and
\* ourPublicValue are both unset, or both set with
\* ourPublicValue = g1^secretExponent mod p; also after calls of
\* dhCommitMessage and dhKeyMessage that fail on a short random read.
C13_ExponentAndPublicValueTogether ==
    \A p \in Party :
        \/ ake[p].secretExponent = Nil /\ ake[p].ourPublicValue = Nil
        \/ /\ ake[p].secretExponent # Nil
           /\ ake[p].ourPublicValue # Nil
           /\ ake[p].ourPublicValue = (g1 ^ ake[p].secretExponent) % P

C13_Witness ==
    /\ ret.op = "dhCommitMessage"
    /\ ret.err = errShortRandomRead
    /\ ake[ret.p].secretExponent # Nil
    /\ ake[ret.p].theirPublicValue # Nil

\* C14: once calcAKEKeys has set ssid in a context, no operation on that
\* context changes it: in every reachable state with ssid derived,
\* revealSigMessage, sigMessage and processRevealSig on any message leave ssid
\* as it is.
C14_SsidImmutable ==
    \A p \in active :
        KeysDerived(ake[p]) =>
            /\ CanSign(ake[p]) =>
                  /\ revealSigMessage(ake[p], FALSE).ctx.ssid = ake[p].ssid
                  /\ sigMessage(ake[p], FALSE).ctx.ssid = ake[p].ssid
            /\ \A msg \in RevealMsgs(p) :
                  LET res == processRevealSig(ake[p], msg)
                  IN  ~res.panic => res.ctx.ssid = ake[p].ssid

\* C15: processDHCommit on a well-formed Commit message returns no error and
\* stores exactly the encryptedGx and hashedGx of the message, changing no
\* other field; and the stored commitment pair is immutable once set: no
\* operation changes encryptedGx or hashedGx of a context that holds a pair.
C15_CommitmentPairImmutable ==
    [][\A p \in active :
          /\ \A msg \in CommitMsgs(p) :
                LET m == chainErrors(ensureValidMessage(msg),
                                     deserializeDHCommit(ensureValidMessage(msg).res))
                IN  m.err = NoErr =>
                        processDHCommit(ake[p], msg)
                            = [ctx |-> [ake[p] EXCEPT !.encryptedGx = m.encryptedGx,
                                                      !.hashedGx = m.hashedGx],
                               err |-> NoErr]
          /\ (ake[p].encryptedGx # <<>> /\ ake[p].hashedGx # <<0, 0>>) =>
                /\ ake'[p].encryptedGx = ake[p].encryptedGx
                /\ ake'[p].hashedGx = ake[p].hashedGx]_vars

\* C16: with OTR enabled, msgState plainText and the requireEncryption policy
\* set, Send returns exactly one message, the query message, with a nil
\* error, raises the encryption-required event, sets lastSent to now and
\* changes nothing else, so msgState stays plainText; the message of the user
\* is not among the messages returned (unless it is the text of the query
\* message itself).
C16_RequireEncryptionSendsQuery ==
    (/\ isOTREnabled(conv.policies)
     /\ conv.msgState = "plainText"
     /\ has(conv.policies, "requireEncryption"))
    => \A m \in UserMessages, ok \in BOOLEAN, upd \in BOOLEAN :
          LET res == Send(conv, m, clock, ok, upd)
          IN  /\ res.msgs = <<queryMessage(conv)>>
              /\ res.err = NoErr
              /\ res.events = {"messageEventEncryptionRequired"}
              /\ res.conv = [conv EXCEPT !.lastSent = clock]
              /\ res.conv.msgState = "plainText"
              /\ m # queryMessage(conv)
                 => \A i \in 1..Len(res.msgs) : res.msgs[i] # m

C16_Witness ==
    /\ out.op = "Send"
    /\ out.err = NoErr
    /\ out.events = {"messageEventEncryptionRequired"}
    /\ conv.msgState = "plainText"
    /\ conv.lastSent = clock
    /\ clock > StartTime

\* C17: with OTR enabled and msgState finished, Send returns no messages and
\* the error of the finished conversation, raises the connection-ended event
\* and leaves the conversation, msgState and lastSent with it, unchanged; so
\* no Send after it returns a message either.
C17_FinishedSendsNothing ==
    (isOTREnabled(conv.policies) /\ conv.msgState = "finished")
    => \A m \in UserMessages, ok \in BOOLEAN, upd \in BOOLEAN :
          LET res == Send(conv, m, clock, ok, upd)
          IN  /\ res.msgs = <<>>
              /\ res.err = errCannotSendFinished
              /\ res.err # NoErr
              /\ res.events = {"messageEventConnectionEnded"}
              /\ res.conv = conv

C17_Witness ==
    /\ out.op = "Send"
    /\ out.err = errCannotSendFinished
    /\ out.events = {"messageEventConnectionEnded"}
    /\ conv.msgState = "finished"
    /\ has(conv.policies, "requireEncryption")
    /\ clock > StartTime

\* the values of plain and toSend given to the heartbeat
PlainValues == {NilBytes, <<>>, <<104>>}

\* C18: potentialHeartbeat returns a heartbeat data message only when plain
\* is non-nil and lastSent is strictly more than heartbeatInterval before
\* now, and it then sets lastSent to now; so a heartbeat is more than
\* heartbeatInterval after the heartbeat before it and after the last
\* updateLastSent.  (A step that leaves the clock alone is a call; out'.beat
\* says that it returned a heartbeat.)
C18_HeartbeatsSpaced ==
    [][/\ \A plain \in PlainValues, genOk \in BOOLEAN, wrapOk \in BOOLEAN :
             LET res == potentialHeartbeat(conv, plain, clock, genOk, wrapOk)
             IN  res.toSend # <<>> =>
                    /\ plain # NilBytes
                    /\ clock - conv.lastSent > heartbeatInterval
                    /\ res.conv.lastSent = clock
                    /\ Take(res.toSend, headerLen) = messageHeader(msgTypeData)
       /\ (clock' = clock /\ out'.beat) =>
             /\ out.lastBeat # Nil => clock - out.lastBeat > heartbeatInterval
             /\ clock - conv.lastSent > heartbeatInterval
             /\ conv'.lastSent = clock]_vars

C18_Witness ==
    /\ out.op = "maybeHeartbeat"
    /\ out.beat
    /\ out.beats = "more"
    /\ out.lastBeat = clock
    /\ conv.lastSent = clock

\* C19: maybeHeartbeat called with a non-nil err returns nil, nil, nil and
\* err and changes nothing; when generating or wrapping the heartbeat message
\* fails, potentialHeartbeat returns no message and that error, raises no
\* event and changes nothing; lastSent is updated, and the heartbeat-sent
\* event raised, exactly when a heartbeat message is returned.
C19_HeartbeatErrorsChangeNothing ==
    \A plain \in PlainValues, genOk \in BOOLEAN, wrapOk \in BOOLEAN :
        LET res == potentialHeartbeat(conv, plain, clock, genOk, wrapOk)
            due == plain # NilBytes /\ conv.lastSent < clock - heartbeatInterval
        IN  /\ maybeHeartbeat(conv, plain, <<0, 2, 3, 1>>, errHeartbeatPending, clock,
                              genOk, wrapOk)
                  = [conv |-> conv, plain |-> NilBytes, toSend |-> <<>>, tsExtra |-> <<>>,
                     err |-> errHeartbeatPending, events |-> {}]
            /\ (due /\ ~genOk) =>
                  res = [conv |-> conv, toSend |-> <<>>, err |-> errEncryption,
                         events |-> {}]
            /\ (due /\ genOk /\ ~wrapOk) =>
                  res = [conv |-> conv, toSend |-> <<>>, err |-> errInvalidVersion,
                         events |-> {}]
            /\ IF res.toSend # <<>>
               THEN /\ res.conv = [conv EXCEPT !.lastSent = clock]
                    /\ res.conv.lastSent # conv.lastSent
                    /\ res.events = {"messageEventHeartbeatSent"}
                    /\ res.err = NoErr
               ELSE res.conv = conv /\ res.events = {}

C19_Witness ==
    /\ out.op = "maybeHeartbeat"
    /\ out.err = errInvalidVersion
    /\ ~out.beat
    /\ out.events = {}
    /\ out.beats = "one"
    /\ conv.lastSent = out.lastBeat
    /\ conv.lastSent < clock - heartbeatInterval

====
